---- MODULE Spec2Model ----
(***************************************************************************)
(* One multipart request handled by the streaming body parser.             *)
(*                                                                         *)
(*   src/index.js               the session: passControl, requestComplete, *)
(*                              receiveFile, receiveFirstFile, req.file,   *)
(*                              the 'field' listener, the max-wait timer   *)
(*   src/lib/Upstream.js        one Upstream: writeFile, noMoreFiles,      *)
(*                              fatalIncomingError, _read, the two timers  *)
(*   src/lib/Parser/defaults.js acquireUpstream and its 'error' listener   *)
(*                                                                         *)
(* index.js builds its streams from UploadStream, whose file is not in the *)
(* tree; the stream class that is in the tree is Upstream, so every stream *)
(* of the session is an Upstream: write() is writeFile, end() is           *)
(* noMoreFiles, and the Parser's _hasPassedControlToApp is the negation of *)
(* index.js's hasControl.  Only multipart requests are modelled.           *)
(*                                                                         *)
(* The state of a handler is threaded through operators as a record `s`;   *)
(* a throw (an 'error' event with no listener) sets s.crashed and every    *)
(* later operator of the same handler is skipped.                          *)
(***************************************************************************)
EXTENDS Integers, Sequences, FiniteSets, TLC

VARIABLES
    hasControl,        \* index.js:106
    anyFilesDetected,  \* index.js:126
    reqClosed,         \* index.js:129
    nextFileId,        \* index.js:49   _nextFileId
    body,              \* index.js:61   req.body
    maxWaitTimer,      \* index.js:134  "armed" | "fired" | "cleared"
    reqFiles,          \* index.js:66   req.files, the global Upstream
    upstreams,         \* defaults.js:58 / index.js:70  the per-field Upstreams
    fstreams,          \* the file sub-streams handed over by the decoder
    nextCalls,         \* the invocations of `next`, in order: "ok" | "err"
    warnings,          \* number of warnings logged or emitted
    crashed,           \* "no", or the unhandled 'error' that ended the process:
                       \* "fileError" (on a file, by fatalIncomingError),
                       \* "upstreamError" (on an Upstream, by fatalIncomingError),
                       \* "pushError" (on an Upstream, by a push after its end)
    decoderEnd,        \* "no" | "ok" | "error": what the decoder passed to requestComplete
    bodyAtFirstFile,   \* history: req.body when the first file was received
    returned,          \* history: what lookups of each field returned while open
    producerFailed,    \* the producer has reported an unrecoverable failure
    appListens,        \* whether the consuming code listens for 'error' on the
                       \* Upstreams it reads from
    lookupThrew,       \* the handler that just ran was a req.file() call that threw
    atNext,            \* history: the files on the streams as downstream code
                       \* found them when `next` was first invoked
    receiver,          \* Upstream.js:99   receiver__ of one call of upload()
    cbCalls,           \* Upstream.js:99   the invocations of upload()'s cb, in order
    resumable          \* index.js:293     one byte source wrapped by Resumable()

sessionVars ==
    << hasControl, anyFilesDetected, reqClosed, nextFileId, body,
       maxWaitTimer, reqFiles, upstreams, fstreams, nextCalls, warnings,
       crashed, decoderEnd, bodyAtFirstFile, returned,
       producerFailed, appListens, lookupThrew, atNext >>

streamVars == << receiver, cbCalls, resumable >>

vars == << sessionVars, streamVars >>

\* ---------------------------------------------------------------- bounds
MaxFiles == 2
MaxConsumers == 1
MaxSinkEvents == 2     \* events one receiver emits
MaxChunks == 2         \* chunks one byte source produces
MaxResumes == 2        \* calls of resume() on one wrapped source
Chunks == {"c1", "c2"}
End == "end"

Fields == {"a", "b"}
TextNames == {"x"}
TextValues == {"v"}

\* What application code may pass to req.file(): the kinds of JavaScript value
\* that validFieldName tells apart, with the name a string stands for.
JsValues ==
    [kind : {"undefined", "null", "NaN", "Infinity", "object", "number"}, name : {""}]
        \cup [kind : {"string"}, name : Fields]
Absent == "absent"
GlobalKey == 0
Noop == -1

\* ---------------------------------------------------------------- state record
Cur ==
    [ hasControl |-> hasControl, anyFilesDetected |-> anyFilesDetected,
      reqClosed |-> reqClosed, nextFileId |-> nextFileId, body |-> body,
      maxWaitTimer |-> maxWaitTimer, reqFiles |-> reqFiles,
      upstreams |-> upstreams, fstreams |-> fstreams, nextCalls |-> nextCalls,
      warnings |-> warnings, crashed |-> crashed, decoderEnd |-> decoderEnd,
      bodyAtFirstFile |-> bodyAtFirstFile,
      returned |-> returned, producerFailed |-> producerFailed,
      appListens |-> appListens,
      lookupThrew |-> FALSE,    \* a handler starts with no exception raised
      atNext |-> atNext ]

GetUp(s, k) == IF k = GlobalKey THEN s.reqFiles ELSE s.upstreams[k]

PutUp(s, k, u) ==
    IF k = GlobalKey THEN [s EXCEPT !.reqFiles = u]
    ELSE [s EXCEPT !.upstreams[k] = u]

UpKeys == {GlobalKey} \cup (1 .. Len(upstreams))

\* ---------------------------------------------------------------- Upstream.js
\* new Upstream(): empty record, nothing connected, both timers armed.
NewUpstream(fieldName) ==
    [ fieldName |-> fieldName,
      files |-> << >>,            \* this._files: [id, status]
      connectedTo |-> << >>,      \* this.connectedTo
      firstFileTimer |-> "armed", \* this.timeouts.untilFirstFileTimer
      maxBufferTimer |-> "armed", \* this.timeouts.untilMaxBufferTimer
      buffer |-> << >>,           \* Readable: handles pushed, not yet read
      ended |-> FALSE,            \* Readable: push(null) was called
      endEmitted |-> FALSE,       \* Readable: the consumer was told end-of-sequence
      pending |-> FALSE,          \* a read found nothing and waits
      delivered |-> << >>,        \* handles the consumer has read, in order
      sessionListener |-> FALSE,  \* the once('error') listener of acquireUpstream
      errors |-> 0,               \* 'error' events emitted on this Upstream
      fatalLog |-> << >>,         \* history: one entry per fatalIncomingError
      atError |-> [seen |-> FALSE, timersOff |-> FALSE, inFlight |-> FALSE,
                   ended |-> FALSE] ]
                                  \* history: the Upstream as the listeners of its
                                  \* latest 'error' event found it

\* Some read() was issued on the Upstream: a consumer is attached.
EverPulled(u) == u.pending \/ u.endEmitted \/ u.delivered # << >>

\* The consuming code has an 'error' listener on the Upstream.
AppListener(s, u) == s.appListens /\ EverPulled(u)

\* What the code that `next` runs finds on the streams of the request.
NotSeen == [seen |-> FALSE, globalIds |-> << >>, fieldIds |-> {}]

SessionView(s) ==
    [seen |-> TRUE,
     globalIds |-> [i \in 1 .. Len(s.reqFiles.files) |-> s.reqFiles.files[i].id],
     fieldIds |-> UNION {{s.upstreams[j].files[i].id :
                               i \in 1 .. Len(s.upstreams[j].files)} :
                            j \in 1 .. Len(s.upstreams)}]

\* next(err) or next(): downstream code starts inside the call.
InvokeNext(s, arg) ==
    [s EXCEPT !.nextCalls = Append(@, arg),
              !.atNext = IF s.nextCalls = << >> THEN SessionView(s) ELSE @]

\* The session's listener: defaults.js:106-135.
OnUpstreamError(s) ==
    IF s.hasControl
    THEN InvokeNext(s, "err")
    ELSE [s EXCEPT !.warnings = @ + 1]

\* What a listener that runs inside emit('error') finds on the Upstream.
ViewOf(u) ==
    [seen |-> TRUE,
     timersOff |-> u.firstFileTimer # "armed" /\ u.maxBufferTimer # "armed",
     inFlight |-> \E i \in 1 .. Len(u.files) : u.files[i].status = "bufferingOrWriting",
     ended |-> u.ended]

\* this.emit('error', err) on an Upstream: every listener runs, a once-listener
\* is removed, and with no listener at all the emit throws.
EmitUpstreamError(s, k) ==
    IF s.crashed # "no" THEN s
    ELSE LET u == GetUp(s, k) IN
         IF ~u.sessionListener /\ ~AppListener(s, u)
         THEN [s EXCEPT !.crashed = "upstreamError"]
         ELSE LET s1 == PutUp(s, k, [u EXCEPT !.errors = @ + 1,
                                               !.sessionListener = FALSE,
                                               !.atError = ViewOf(u)])
              IN IF u.sessionListener THEN OnUpstreamError(s1) ELSE s1

\* Readable.push(filestream): after push(null) it raises 'error' on the stream;
\* otherwise the handle goes to a waiting read or into the buffer.
Push(s, k, id) ==
    IF s.crashed # "no" THEN s
    ELSE LET u == GetUp(s, k) IN
         IF u.ended
         THEN LET s1 == EmitUpstreamError(s, k)
              IN IF s1.crashed = "upstreamError"
                 THEN [s1 EXCEPT !.crashed = "pushError"] ELSE s1
         ELSE IF u.pending
              THEN PutUp(s, k, [u EXCEPT !.delivered = Append(@, id),
                                         !.pending = FALSE])
              ELSE PutUp(s, k, [u EXCEPT !.buffer = Append(@, id)])

\* Upstream.prototype.writeFile
writeFile(s, k, id) ==
    IF s.crashed # "no" THEN s
    ELSE LET u == GetUp(s, k)
             u1 == [u EXCEPT !.files =
                        Append(@, [id |-> id, status |-> "bufferingOrWriting"])]
             s1 == PutUp(s, k, u1)
             s2 == [s1 EXCEPT !.fstreams[id + 1].listeners = @ + 1]
         IN Push(s2, k, id)

\* Upstream.prototype.noMoreFiles: push(null)
noMoreFiles(s, k) ==
    IF s.crashed # "no" THEN s
    ELSE LET u == GetUp(s, k) IN
         IF u.ended THEN s
         ELSE IF u.pending /\ u.buffer = << >>
              THEN PutUp(s, k, [u EXCEPT !.ended = TRUE, !.endEmitted = TRUE,
                                         !.pending = FALSE])
              ELSE PutUp(s, k, [u EXCEPT !.ended = TRUE])

\* The loop of fatalIncomingError over this._files, from entry i on.
RECURSIVE CancelFiles(_, _, _)
CancelFiles(s, k, i) ==
    IF s.crashed # "no" THEN s
    ELSE LET u == GetUp(s, k) IN
         IF i > Len(u.files) THEN s
         ELSE LET id == u.files[i].id
                  s1 == PutUp(s, k, [u EXCEPT !.files[i].status = "cancelled"])
              IN IF s1.fstreams[id + 1].listeners = 0
                 THEN [s1 EXCEPT !.crashed = "fileError"]
                 ELSE CancelFiles(
                        [s1 EXCEPT !.fstreams[id + 1].listeners = 0,
                                   !.fstreams[id + 1].errors = @ + 1],
                        k, i + 1)

ClearTimer(t) == IF t = "armed" THEN "cleared" ELSE t

\* Faulty variant: the error is raised on the Upstream before it is ended
fatalIncomingError_emitsFirst(s, k, cause) ==
    IF s.crashed # "no" THEN s
    ELSE LET u == GetUp(s, k)
             u1 == [u EXCEPT
                      !.firstFileTimer = ClearTimer(@),
                      !.maxBufferTimer = ClearTimer(@),
                      !.fatalLog = Append(@, cause)]
             s1 == PutUp(s, k, u1)
             s2 == CancelFiles(s1, k, 1)
             s3 == EmitUpstreamError(s2, k)
         IN noMoreFiles(s3, k)

\* Faulty variant: the failure of one Upstream ends every per-field Upstream
fatalIncomingError_endsSiblings(s, k, cause) ==
    IF s.crashed # "no" THEN s
    ELSE LET u == GetUp(s, k)
             u1 == [u EXCEPT
                      !.firstFileTimer = ClearTimer(@),
                      !.maxBufferTimer = ClearTimer(@),
                      !.fatalLog = Append(@, cause)]
             s1 == PutUp(s, k, u1)
             s2 == CancelFiles(s1, k, 1)
             s3 == noMoreFiles(s2, k)
             s4 == [s3 EXCEPT !.upstreams =
                       [j \in DOMAIN @ |-> [@[j] EXCEPT !.ended = TRUE]]]
         IN EmitUpstreamError(s4, k)

\* Upstream.prototype.fatalIncomingError
fatalIncomingError(s, k, cause) ==
    IF s.crashed # "no" THEN s
    ELSE LET u == GetUp(s, k)
             u1 == [u EXCEPT
                      !.firstFileTimer = ClearTimer(@),
                      !.maxBufferTimer = ClearTimer(@),
                      !.fatalLog = Append(@, cause)]
             s1 == PutUp(s, k, u1)
             s2 == CancelFiles(s1, k, 1)
             s3 == noMoreFiles(s2, k)
         IN EmitUpstreamError(s3, k)

\* ---------------------------------------------------------------- index.js
\* passControl(err)
passControl(s, err) ==
    IF s.crashed # "no" THEN s
    ELSE IF ~s.hasControl THEN s
    ELSE IF err
         THEN InvokeNext([s EXCEPT !.hasControl = FALSE], "err")
         ELSE InvokeNext([s EXCEPT !.hasControl = FALSE,
                                   !.maxWaitTimer = ClearTimer(@)], "ok")

\* _.find(this.upstreams, {fieldName: fieldName}): index of the first match, 0 if none
FindUpstream(s, fieldName) ==
    LET hits == {i \in 1 .. Len(s.upstreams) : s.upstreams[i].fieldName = fieldName}
    IN IF hits = {} THEN 0 ELSE CHOOSE i \in hits : \A j \in hits : i <= j

\* Faulty variant: acquireUpstream without the lookup of an existing Upstream
acquireUpstream_alwaysNew(s, fieldName) ==
    [s |-> [s EXCEPT !.upstreams =
               Append(@, [NewUpstream(fieldName) EXCEPT !.sessionListener = TRUE])],
     ret |-> Len(s.upstreams) + 1]

\* Parser.prototype.acquireUpstream: [s, ret], ret the key of the Upstream
acquireUpstream(s, fieldName) ==
    LET found == FindUpstream(s, fieldName) IN
    IF found # 0 THEN [s |-> s, ret |-> found]
    ELSE [s |-> [s EXCEPT !.upstreams =
                    Append(@, [NewUpstream(fieldName) EXCEPT !.sessionListener = TRUE])],
          ret |-> Len(s.upstreams) + 1]

\* Faulty variant: req.file without the test of reqClosed
reqFile_ignoreClosed(s, fieldName) ==
    IF s.crashed # "no" THEN [s |-> s, ret |-> Noop]
    ELSE LET r == acquireUpstream(s, fieldName)
         IN [s |-> [r.s EXCEPT !.returned[fieldName] = @ \cup {r.ret}],
             ret |-> r.ret]

\* req.file(fieldName) for a valid field name
reqFile(s, fieldName) ==
    IF s.crashed # "no" THEN [s |-> s, ret |-> Noop]
    ELSE IF s.reqClosed THEN [s |-> s, ret |-> Noop]
    ELSE LET r == acquireUpstream(s, fieldName)
         IN [s |-> [r.s EXCEPT !.returned[fieldName] = @ \cup {r.ret}],
             ret |-> r.ret]

\* Faulty variant: only `undefined` is refused
validFieldName_onlyUndefined(v) == v.kind # "undefined"

\* validFieldName: _.isString holds of strings only, _.isFinite of finite
\* numbers only (not of null, NaN, Infinity or a plain object), and
\* `fieldName === 0` of a number that _.isFinite already accepts.
validFieldName(v) ==
    v.kind # "undefined" /\ (v.kind = "string" \/ v.kind = "number")

\* req.file(fieldName) as application code calls it: the throw of the usage
\* error comes before anything else
reqFileChecked(s, v) ==
    IF s.crashed # "no" THEN s
    ELSE IF ~validFieldName(v) THEN [s EXCEPT !.lookupThrew = TRUE]
    ELSE reqFile(s, v.name).s

\* receiveFirstFile
receiveFirstFile(s) ==
    IF s.crashed # "no" THEN s
    ELSE passControl([s EXCEPT !.anyFilesDetected = TRUE,
                               !.bodyAtFirstFile = s.body], FALSE)

\* Faulty variant: a receiveFile that announces the file on the global stream only
receiveFile_globalOnly(s, fieldName) ==
    LET id == s.nextFileId
        s1 == [s EXCEPT !.nextFileId = @ + 1,
                        !.fstreams = Append(@, [name |-> fieldName, listeners |-> 0,
                                                errors |-> 0])]
        s2 == writeFile(s1, GlobalKey, id)
        r  == reqFile(s2, fieldName)
        s3 == r.s
    IN IF s3.crashed = "no" /\ ~s3.anyFilesDetected THEN receiveFirstFile(s3) ELSE s3

\* Faulty variant: a receiveFile that passes control before it announces the file
receiveFile_controlFirst(s, fieldName) ==
    LET id == s.nextFileId
        s1 == [s EXCEPT !.nextFileId = @ + 1,
                        !.fstreams = Append(@, [name |-> fieldName, listeners |-> 0,
                                                errors |-> 0])]
        s2 == IF ~s1.anyFilesDetected THEN receiveFirstFile(s1) ELSE s1
        s3 == writeFile(s2, GlobalKey, id)
        r  == reqFile(s3, fieldName)
    IN IF r.ret = Noop THEN r.s ELSE writeFile(r.s, r.ret, id)

\* receiveFile(fieldStream)
receiveFile(s, fieldName) ==
    LET id == s.nextFileId
        s1 == [s EXCEPT !.nextFileId = @ + 1,
                        !.fstreams = Append(@, [name |-> fieldName, listeners |-> 0,
                                                errors |-> 0])]
        s2 == writeFile(s1, GlobalKey, id)
        r  == reqFile(s2, fieldName)
        s3 == IF r.ret = Noop THEN r.s ELSE writeFile(r.s, r.ret, id)
    IN IF s3.crashed = "no" /\ ~s3.anyFilesDetected THEN receiveFirstFile(s3) ELSE s3

\* _.each(req.files._watchedFields, stream.end(err)), from entry i on
RECURSIVE EndAll(_, _)
EndAll(s, i) ==
    IF i > Len(s.upstreams) THEN s ELSE EndAll(noMoreFiles(s, i), i + 1)

\* requestComplete(err, fields, files)
requestComplete(s, err) ==
    LET s1 == noMoreFiles([s EXCEPT !.decoderEnd = IF err THEN "error" ELSE "ok"],
                          GlobalKey)
        s2 == EndAll(s1, 1)
    IN passControl([s2 EXCEPT !.reqClosed = TRUE], FALSE)

\* Faulty variant: a field that comes after the first file is not stored
onField_dropsLate(s, name, value) ==
    IF s.anyFilesDetected THEN [s EXCEPT !.warnings = @ + 1]
    ELSE [s EXCEPT !.body[name] = value]

\* form.on('field', ...)
onField(s, name, value) ==
    LET s1 == IF s.anyFilesDetected THEN [s EXCEPT !.warnings = @ + 1] ELSE s
    IN [s1 EXCEPT !.body[name] = value]

\* req.files = new UploadStream(): an Upstream whose errors the session observes
GlobalUpstream == [NewUpstream("*") EXCEPT !.sessionListener = TRUE]

\* An unhandled 'error' event ends the process: nothing of its state is left
\* but the kind of the error.
Set(s) ==
    LET dead == s.crashed # "no" IN
    /\ hasControl' = (IF dead THEN FALSE ELSE s.hasControl)
    /\ anyFilesDetected' = (IF dead THEN FALSE ELSE s.anyFilesDetected)
    /\ reqClosed' = (IF dead THEN FALSE ELSE s.reqClosed)
    /\ nextFileId' = (IF dead THEN 0 ELSE s.nextFileId)
    /\ body' = (IF dead THEN [n \in TextNames |-> Absent] ELSE s.body)
    /\ maxWaitTimer' = (IF dead THEN "cleared" ELSE s.maxWaitTimer)
    /\ reqFiles' = (IF dead THEN NewUpstream("*") ELSE s.reqFiles)
    /\ upstreams' = (IF dead THEN << >> ELSE s.upstreams)
    /\ fstreams' = (IF dead THEN << >> ELSE s.fstreams)
    /\ nextCalls' = (IF dead THEN << >> ELSE s.nextCalls)
    /\ warnings' = (IF dead THEN 0 ELSE s.warnings)
    /\ crashed' = s.crashed
    /\ decoderEnd' = (IF dead THEN "no" ELSE s.decoderEnd)
    /\ bodyAtFirstFile' = (IF dead THEN [n \in TextNames |-> Absent] ELSE s.bodyAtFirstFile)
    /\ returned' = (IF dead THEN [f \in Fields |-> {}] ELSE s.returned)
    /\ producerFailed' = (IF dead THEN FALSE ELSE s.producerFailed)
    /\ appListens' = (IF dead THEN FALSE ELSE s.appListens)
    /\ lookupThrew' = (IF dead THEN FALSE ELSE s.lookupThrew)
    /\ atNext' = (IF dead THEN NotSeen ELSE s.atNext)
    /\ UNCHANGED streamVars

\* ---------------------------------------------------------------- initial state
Init ==
    /\ hasControl = TRUE
    /\ anyFilesDetected = FALSE
    /\ reqClosed = FALSE
    /\ nextFileId = 0
    /\ body = [n \in TextNames |-> Absent]
    /\ maxWaitTimer = "armed"
    /\ reqFiles = GlobalUpstream
    /\ upstreams = << >>
    /\ fstreams = << >>
    /\ nextCalls = << >>
    /\ warnings = 0
    /\ crashed = "no"
    /\ decoderEnd = "no"
    /\ bodyAtFirstFile = [n \in TextNames |-> Absent]
    /\ returned = [f \in Fields |-> {}]
    /\ producerFailed = FALSE
    /\ appListens = FALSE
    /\ lookupThrew = FALSE
    /\ atNext = NotSeen
    /\ receiver = [piped |-> FALSE, onFinish |-> FALSE, onError |-> FALSE,
                   emitted |-> 0, unhandled |-> FALSE]
    /\ cbCalls = << >>
    /\ resumable = [produced |-> << >>, ended |-> FALSE, queue |-> << >>,
                    resumed |-> FALSE, out |-> << >>, calls |-> 0, drained |-> 0]

\* ---------------------------------------------------------------- actions
Alive == crashed = "no"
AppRunning == Len(nextCalls) > 0

\* Handlers run to completion: while the exception of a req.file() call is
\* propagating no other handler starts.
Ready == Alive /\ ~lookupThrew

\* Field names are interchangeable: the one referenced first is called "a".
InOrder(f) == f = "a" \/ Len(upstreams) > 0

\* the decoder reports a file sub-stream on a field
ReceiveFile ==
    /\ Ready /\ decoderEnd = "no" /\ ~producerFailed /\ nextFileId < MaxFiles
    /\ \E f \in Fields : InOrder(f) /\ Set(receiveFile(Cur, f))

\* the decoder reports a text field
Field ==
    /\ Ready /\ decoderEnd = "no" /\ ~producerFailed
    /\ \E n \in TextNames, v \in TextValues :
         /\ body[n] = Absent
         /\ Set(onField(Cur, n, v))

\* the decoder reports the end of the request, with or without an error
RequestComplete ==
    /\ Ready /\ decoderEnd = "no"
    /\ \E err \in BOOLEAN : Set(requestComplete(Cur, err))

\* the max-wait timer elapses
GiveUpOnFiles ==
    /\ Ready /\ maxWaitTimer = "armed"
    /\ LET s1 == [Cur EXCEPT !.maxWaitTimer = "fired"]
       IN Set(IF ~anyFilesDetected THEN passControl(s1, FALSE) ELSE s1)

\* Faulty variant: the first-file timer raises the fatal error whatever was emitted
firstFileTimeout_always(s, k) ==
    LET u == GetUp(s, k)
    IN fatalIncomingError(PutUp(s, k, [u EXCEPT !.firstFileTimer = "fired"]),
                          k, "firstFile")

\* the first-file timer of an Upstream elapses
firstFileTimeout(s, k) ==
    LET u == GetUp(s, k)
        s1 == PutUp(s, k, [u EXCEPT !.firstFileTimer = "fired"])
    IN IF Len(u.files) = 0 THEN fatalIncomingError(s1, k, "firstFile") ELSE s1

FirstFileTimer ==
    /\ Ready
    /\ \E k \in UpKeys :
         /\ GetUp(Cur, k).firstFileTimer = "armed"
         /\ Set(firstFileTimeout(Cur, k))

\* the max-buffer timer of an Upstream elapses (after the shorter first-file timer)
maxBufferTimeout(s, k) ==
    LET u == GetUp(s, k)
        s1 == PutUp(s, k, [u EXCEPT !.maxBufferTimer = "fired"])
    IN IF Len(u.connectedTo) = 0 THEN fatalIncomingError(s1, k, "maxBuffer") ELSE s1

MaxBufferTimer ==
    /\ Ready
    /\ \E k \in UpKeys :
         /\ GetUp(Cur, k).maxBufferTimer = "armed"
         /\ GetUp(Cur, k).firstFileTimer # "armed"
         /\ Set(maxBufferTimeout(Cur, k))

\* the producer reports an unrecoverable failure on an Upstream
ProducerFatal ==
    /\ Ready /\ decoderEnd = "no" /\ ~producerFailed
    /\ \E k \in UpKeys :
         Set(fatalIncomingError([Cur EXCEPT !.producerFailed = TRUE], k, "producer"))

\* Readable.read() by the consumer.  _read only sets this._connected, which no
\* code reads (the max-buffer timer looks at connectedTo), so the record keeps
\* no such field: EverPulled tells whether a read was issued.
read(s, k) ==
    LET u == GetUp(s, k)
    IN IF u.buffer # << >>
       THEN PutUp(s, k, [u EXCEPT !.delivered = Append(@, Head(u.buffer)),
                                  !.buffer = Tail(@)])
       ELSE IF u.ended THEN PutUp(s, k, [u EXCEPT !.endEmitted = TRUE])
       ELSE PutUp(s, k, [u EXCEPT !.pending = TRUE])

Pull ==
    /\ Ready /\ AppRunning
    /\ \E k \in UpKeys :
         /\ ~GetUp(Cur, k).endEmitted
         /\ ~GetUp(Cur, k).pending
         /\ \/ EverPulled(GetUp(Cur, k))
            \/ Cardinality({j \in UpKeys : EverPulled(GetUp(Cur, j))}) < MaxConsumers
         /\ \E l \in BOOLEAN :
              /\ (\E j \in UpKeys : EverPulled(GetUp(Cur, j))) => l = appListens
              /\ Set(read([Cur EXCEPT !.appListens = l], k))

\* application code calls req.file(fieldName); a finite number names a field
\* like the string of its digits and is left out of the calls made here
AppLookup ==
    /\ Ready /\ AppRunning
    /\ \E v \in JsValues :
         /\ v.kind # "number"
         /\ v.kind = "string" => InOrder(v.name)
         /\ Set(reqFileChecked(Cur, v))

\* the usage error thrown by req.file() unwinds the application's handler
AppCatch ==
    /\ Alive /\ lookupThrew
    /\ Set(Cur)

Next ==
    \/ ReceiveFile
    \/ Field
    \/ RequestComplete
    \/ GiveUpOnFiles
    \/ FirstFileTimer
    \/ MaxBufferTimer
    \/ ProducerFatal
    \/ Pull
    \/ AppLookup
    \/ AppCatch

Spec == Init /\ [][Next]_vars

\* ---------------------------------------------------------------- upload()
\* Upstream.prototype.upload: a once('finish') and a once('error') listener on
\* the receiver, then this.pipe(receiver__)
upload(r) == [r EXCEPT !.piped = TRUE, !.onFinish = TRUE, !.onError = TRUE]

\* the receiver emits 'finish': allFilesUploaded runs if it is still attached
\* and calls cb(null, files), files being [] when no array was supplied
emitFinish(r, calls, files) ==
    IF r.onFinish
    THEN [r |-> [r EXCEPT !.onFinish = FALSE, !.emitted = @ + 1],
          calls |-> Append(calls, [err |-> FALSE,
                                   files |-> IF files = "array" THEN "files" ELSE "empty"])]
    ELSE [r |-> [r EXCEPT !.emitted = @ + 1], calls |-> calls]

\* the receiver emits 'error': unableToUpload runs if it is still attached and
\* calls cb(err); with no listener left the event is unhandled
emitError(r, calls) ==
    IF r.onError
    THEN [r |-> [r EXCEPT !.onError = FALSE, !.emitted = @ + 1],
          calls |-> Append(calls, [err |-> TRUE, files |-> "none"])]
    ELSE [r |-> [r EXCEPT !.emitted = @ + 1, !.unhandled = TRUE], calls |-> calls]

Upload ==
    /\ ~receiver.piped
    /\ receiver' = upload(receiver)
    /\ UNCHANGED << cbCalls, resumable, sessionVars >>

SinkFinish ==
    /\ receiver.piped /\ ~receiver.unhandled /\ receiver.emitted < MaxSinkEvents
    /\ \E files \in {"array", "none"} :
         /\ receiver' = emitFinish(receiver, cbCalls, files).r
         /\ cbCalls' = emitFinish(receiver, cbCalls, files).calls
    /\ UNCHANGED << resumable, sessionVars >>

SinkError ==
    /\ receiver.piped /\ ~receiver.unhandled /\ receiver.emitted < MaxSinkEvents
    /\ receiver' = emitError(receiver, cbCalls).r
    /\ cbCalls' = emitError(receiver, cbCalls).calls
    /\ UNCHANGED << resumable, sessionVars >>

\* ---------------------------------------------------------------- Resumable()
\* The wrapped source produces a chunk: queued until the first resume(),
\* passed through afterwards.
onData(r, c) ==
    IF r.resumed
    THEN [r EXCEPT !.produced = Append(@, c), !.out = Append(@, c)]
    ELSE [r EXCEPT !.produced = Append(@, c), !.queue = Append(@, c)]

\* Faulty variant: an end that comes before resume() is not kept
onEnd_notQueued(r) ==
    IF r.resumed
    THEN [r EXCEPT !.ended = TRUE, !.out = Append(@, End)]
    ELSE [r EXCEPT !.ended = TRUE]

\* The wrapped source ends: the end signal is queued like a chunk.
onEnd(r) ==
    IF r.resumed
    THEN [r EXCEPT !.ended = TRUE, !.out = Append(@, End)]
    ELSE [r EXCEPT !.ended = TRUE, !.queue = Append(@, End)]

\* resume(): the first call drains the queue in arrival order and switches to
\* pass-through; a later call does nothing.
resume(r) ==
    IF r.resumed THEN [r EXCEPT !.calls = @ + 1]
    ELSE [r EXCEPT !.resumed = TRUE, !.out = @ \o r.queue, !.queue = << >>,
                   !.drained = Len(r.queue), !.calls = @ + 1]

SourceData ==
    /\ ~resumable.ended /\ Len(resumable.produced) < MaxChunks
    /\ \E c \in Chunks : resumable' = onData(resumable, c)
    /\ UNCHANGED << receiver, cbCalls, sessionVars >>

SourceEnd ==
    /\ ~resumable.ended
    /\ resumable' = onEnd(resumable)
    /\ UNCHANGED << receiver, cbCalls, sessionVars >>

Resume ==
    /\ resumable.calls < MaxResumes
    /\ resumable' = resume(resumable)
    /\ UNCHANGED << receiver, cbCalls, sessionVars >>

NextStreams ==
    \/ Upload
    \/ SinkFinish
    \/ SinkError
    \/ SourceData
    \/ SourceEnd
    \/ Resume

\* one call of upload() and one wrapped byte source, apart from the session
SpecStreams == Init /\ [][NextStreams]_vars

\* ---------------------------------------------------------------- claims
UpAt(rf, ups, k) == IF k = GlobalKey THEN rf ELSE ups[k]

\* the ids of a record of files, in order
Ids(files) == [i \in 1 .. Len(files) |-> files[i].id]

\* the ids of the files that arrived on a field, in arrival order
FilesOf(f) ==
    LET isOnField(id) == fstreams[id + 1].name = f
    IN SelectSeq([i \in 1 .. Len(fstreams) |-> i - 1], isOnField)

\* this step appends an entry with this cause to the fatalLog of Upstream k
NewFatal(k, cause) ==
    LET old == UpAt(reqFiles, upstreams, k).fatalLog
        new == UpAt(reqFiles', upstreams', k).fatalLog
    IN Len(new) = Len(old) + 1 /\ new[Len(new)] = cause

\* C1: whatever triggers occur (first file, wait timer, end of request, an
\* Upstream's error before control has passed), `next` is invoked at most once.
C1_NextAtMostOnce == Len(nextCalls) <= 1

\* C2: once the first file has been received, req.body stays what it was at
\* that moment: no later 'field' event changes it.
C2_BodyFrozen == anyFilesDetected => body = bodyAtFirstFile

\* C3: on every Upstream the handles emitted are exactly the handles delivered
\* to the consumer followed by those still buffered for it, in the same order:
\* none is lost, duplicated or reordered; a read waits only on a non-terminal
\* Upstream with nothing buffered, and end-of-sequence is signalled only on a
\* terminal, drained one.
C3_DeliveredIsEmitted ==
    \A k \in UpKeys :
        LET u == UpAt(reqFiles, upstreams, k)
        IN /\ Ids(u.files) = u.delivered \o u.buffer
           /\ u.pending => (~u.ended /\ u.buffer = << >>)
           /\ u.endEmitted => (u.ended /\ u.buffer = << >>)

\* C4: the record of the global Upstream is the sequence of all files in
\* arrival order, and the record of each per-field Upstream is exactly the
\* subsequence of the files that carry its field name.
C4_RecordsMirror ==
    /\ Len(fstreams) = nextFileId
    /\ Ids(reqFiles.files) = [i \in 1 .. nextFileId |-> i - 1]
    /\ \A i \in 1 .. Len(upstreams) :
           Ids(upstreams[i].files) = FilesOf(upstreams[i].fieldName)

\* two files on two different fields, each on the Upstream of its field
C4_Witness ==
    /\ Len(fstreams) = 2 /\ fstreams[1].name # fstreams[2].name
    /\ Len(upstreams) = 2
    /\ Len(upstreams[1].files) = 1 /\ Len(upstreams[2].files) = 1
    /\ Len(reqFiles.files) = 2

\* C5: on an Upstream from which a read was issued, the max-buffer deadline
\* never raises the fatal error.
C5_PullCancelsDeadline ==
    [][ \A k \in UpKeys :
          (crashed' = "no" /\ EverPulled(UpAt(reqFiles, upstreams, k)))
              => ~NewFatal(k, "maxBuffer") ]_vars

\* C6: when the first-file deadline of an Upstream elapses it raises the fatal
\* error if and only if no handle has been emitted on that Upstream, and the
\* fatal error of that deadline is raised at no other moment.
C6_FirstFileDeadline ==
    [][ crashed' = "no" =>
          \A k \in UpKeys :
            LET u == UpAt(reqFiles, upstreams, k)
                elapsed == /\ u.firstFileTimer = "armed"
                           /\ UpAt(reqFiles', upstreams', k).firstFileTimer = "fired"
            IN /\ elapsed => (NewFatal(k, "firstFile") <=> Len(u.files) = 0)
               /\ NewFatal(k, "firstFile") => (elapsed /\ Len(u.files) = 0) ]_vars

\* the deadline of the global Upstream elapsed after a file and did nothing,
\* the deadline of a per-field Upstream elapsed with no file and was fatal
C6_Witness ==
    /\ reqFiles.firstFileTimer = "fired" /\ Len(reqFiles.files) > 0
    /\ reqFiles.fatalLog = << >>
    /\ \E i \in 1 .. Len(upstreams) :
           upstreams[i].fatalLog = << "firstFile" >> /\ upstreams[i].files = << >>

\* a consumer has read the handle and the decoder has passed the end of the
\* file, with no error raised on it
Delivered(i) ==
    /\ fstreams[i].errors = 0
    /\ i < Len(fstreams) \/ decoderEnd # "no"
    /\ \E k \in UpKeys :
         \E j \in 1 .. Len(UpAt(reqFiles, upstreams, k).delivered) :
            UpAt(reqFiles, upstreams, k).delivered[j] = i - 1

\* C7: a fatal error leaves a handle whose bytes were already delivered as it
\* is: its status is kept and no error is raised on its byte source.
C7_DeliveredUntouched ==
    [][ crashed' = "no" =>
          \A i \in 1 .. Len(fstreams) :
            Delivered(i) =>
              /\ fstreams'[i].errors = 0
              /\ \A k \in UpKeys :
                   \A j \in 1 .. Len(UpAt(reqFiles, upstreams, k).files) :
                      UpAt(reqFiles', upstreams', k).files[j].status
                          = UpAt(reqFiles, upstreams, k).files[j].status ]_vars

\* C8: a fatalIncomingError on an Upstream that already had one has no further
\* effect: no error is raised on the Upstream or on a file, no status changes
\* and `next` is not invoked.
C8_FatalIdempotent ==
    [][ \A k \in UpKeys :
          LET u == UpAt(reqFiles, upstreams, k)
          IN (/\ crashed' = "no"
              /\ Len(u.fatalLog) >= 1
              /\ Len(UpAt(reqFiles', upstreams', k).fatalLog) > Len(u.fatalLog))
             => /\ UpAt(reqFiles', upstreams', k).errors = u.errors
                /\ UpAt(reqFiles', upstreams', k).files = u.files
                /\ fstreams' = fstreams
                /\ nextCalls' = nextCalls ]_vars

\* C9: once the decoder has reported the end of the request the session is
\* closed, every registered Upstream has been ended, and no lookup registers
\* an Upstream any more.
C9_ClosedSession ==
    /\ [](decoderEnd # "no" =>
            /\ reqClosed
            /\ \A k \in UpKeys : UpAt(reqFiles, upstreams, k).ended)
    /\ [][ (decoderEnd # "no" /\ crashed' = "no")
              => Len(upstreams') = Len(upstreams) ]_vars

\* the request has ended with one field registered and the other one not
C9_Witness ==
    /\ decoderEnd # "no" /\ reqClosed /\ AppRunning
    /\ Len(upstreams) = 1 /\ upstreams[1].ended /\ reqFiles.ended

\* C10: at most one Upstream is registered per field name, every lookup of a
\* field returns that one Upstream, and it holds every file of the field.
C10_OneUpstreamPerField ==
    \A f \in Fields :
        /\ Cardinality({i \in 1 .. Len(upstreams) : upstreams[i].fieldName = f}) <= 1
        /\ Cardinality(returned[f]) <= 1
        /\ \A k \in returned[f] :
              /\ k \in 1 .. Len(upstreams)
              /\ upstreams[k].fieldName = f
              /\ Ids(upstreams[k].files) = FilesOf(f)

\* the application looked a field up before any file; a file of another field
\* and then a file of that field arrived, and the latter is on that Upstream
C10_Witness ==
    /\ Len(fstreams) = 2 /\ fstreams[1].name = "b" /\ fstreams[2].name = "a"
    /\ Len(upstreams) = 2 /\ upstreams[1].fieldName = "a"
    /\ Ids(upstreams[1].files) = << 1 >>
    /\ returned["a"] = {1}

\* C11: req.file() with an argument that is neither a string nor a finite
\* number throws the usage error in every state of the session, open or closed,
\* and the call changes nothing: no Upstream is registered and the flags stay.
C11_InvalidNameRejected ==
    /\ \A v \in JsValues :
          validFieldName(v) <=> v.kind \in {"string", "number"}
    /\ Alive =>
          \A v \in JsValues :
             v.kind \notin {"string", "number"}
                => reqFileChecked(Cur, v) = [Cur EXCEPT !.lookupThrew = TRUE]

\* the call threw in a closed session that has a field registered
C11_Witness == lookupThrew /\ reqClosed /\ Len(upstreams) = 1

\* C12: when the decoder reports a fatal parse error while control has not
\* passed, `next` is invoked with that error and never without one.
C12_DecoderErrorDelivered ==
    [][ (/\ hasControl /\ nextCalls = << >>
         /\ decoderEnd = "no" /\ decoderEnd' = "error"
         /\ crashed' = "no")
           => nextCalls' = << "err" >> ]_vars

\* C13: when the wait timer elapses with no file seen control passes at that
\* moment, and as long as no file has arrived the first read that downstream
\* code issues on the global Upstream is answered by end-of-sequence: it
\* neither waits nor yields a handle, whether or not the request has ended.
C13_WaitTimerEndsGlobal ==
    /\ [][ (maxWaitTimer = "armed" /\ maxWaitTimer' = "fired" /\ nextFileId = 0)
              => (AppRunning' /\ ~hasControl') ]_vars
    /\ [][ (/\ maxWaitTimer = "fired" /\ nextFileId = 0
             /\ ~EverPulled(reqFiles) /\ EverPulled(reqFiles')
             /\ crashed' = "no")
               => reqFiles'.endEmitted ]_vars

\* C14: the callback of one call of upload() is invoked at most once, whatever
\* the receiver emits afterwards (a 'finish' after an 'error' or an 'error'
\* after a 'finish'); a completion passes the results, the empty sequence when
\* the receiver supplied no array.
C14_CallbackOnce ==
    /\ Len(cbCalls) <= 1
    /\ \A i \in 1 .. Len(cbCalls) :
          cbCalls[i].err \/ cbCalls[i].files \in {"files", "empty"}

\* C15: what the consumer of a wrapped byte source has observed, followed by
\* what is still queued, is what the source produced (its end included), in
\* the same order; nothing is observed before the first resume(), and a later
\* resume() changes nothing.
C15_ResumableNoLoss ==
    /\ [](resumable.out \o resumable.queue
             = resumable.produced \o (IF resumable.ended THEN << End >> ELSE << >>))
    /\ [](~resumable.resumed => resumable.out = << >>)
    /\ [](resumable.resumed => resumable.queue = << >>)
    /\ [][ (resumable.resumed /\ resumable'.calls > resumable.calls)
              => (resumable'.out = resumable.out /\ resumable'.queue = resumable.queue) ]_vars

\* the source produced two chunks and ended before the first resume(), which
\* drained all three; a second resume() followed
C15_Witness ==
    /\ resumable.calls = 2 /\ resumable.drained = 3
    /\ Len(resumable.produced) = 2 /\ resumable.out = resumable.produced \o << End >>

\* C16: a fatalIncomingError on one per-field Upstream leaves every other
\* per-field Upstream as it was (record, statuses, terminal flag, both timers)
\* and raises no error on a file of another field.
C16_SiblingsUntouched ==
    [][ crashed' = "no" =>
          \A k \in 1 .. Len(upstreams) :
            Len(upstreams'[k].fatalLog) > Len(upstreams[k].fatalLog) =>
              /\ \A j \in 1 .. Len(upstreams) :
                    j # k => upstreams'[j] = upstreams[j]
              /\ \A i \in 1 .. Len(fstreams) :
                    fstreams[i].name # upstreams[k].fieldName
                       => fstreams'[i] = fstreams[i] ]_vars

\* one per-field Upstream failed with a file in flight, which is cancelled;
\* its sibling is open, its file is in flight and no error was raised on it
C16_Witness ==
    \E k, j \in 1 .. Len(upstreams) :
        /\ k # j
        /\ upstreams[k].fatalLog # << >> /\ Len(upstreams[k].files) = 1
        /\ upstreams[k].files[1].status = "cancelled"
        /\ upstreams[j].fatalLog = << >> /\ ~upstreams[j].ended
        /\ Len(upstreams[j].files) = 1
        /\ upstreams[j].files[1].status = "bufferingOrWriting"
        /\ fstreams[upstreams[j].files[1].id + 1].errors = 0

\* C17: whoever observes the error that a fatalIncomingError raises on its
\* Upstream finds both timers cancelled, no file of the Upstream in flight any
\* more and the Upstream ended: the error on the Upstream comes last.
C17_ErrorComesLast ==
    [][ crashed' = "no" =>
          \A k \in UpKeys :
            Len(UpAt(reqFiles', upstreams', k).fatalLog)
                > Len(UpAt(reqFiles, upstreams, k).fatalLog)
              => UpAt(reqFiles', upstreams', k).atError
                    = [seen |-> TRUE, timersOff |-> TRUE, inFlight |-> FALSE,
                       ended |-> TRUE] ]_vars

\* an Upstream with a file in flight and not yet ended failed, and the error
\* was observed
C17_Witness ==
    \E k \in UpKeys :
        LET u == UpAt(reqFiles, upstreams, k)
        IN /\ u.fatalLog = << "producer" >> /\ u.errors = 1 /\ u.atError.seen
           /\ Len(u.files) = 2 /\ u.files[2].status = "cancelled"
           /\ decoderEnd = "no"

\* C18: an error raised on an Upstream reaches `next` only while control has
\* not passed: if `next` has not been invoked yet it is invoked with the error,
\* and once `next` has been invoked it is not invoked for the error again and
\* the session's listener only emits a warning.
C18_ErrorRouting ==
    [][ crashed' = "no" =>
          \A k \in UpKeys :
            LET u == UpAt(reqFiles, upstreams, k)
            IN UpAt(reqFiles', upstreams', k).errors > u.errors =>
                 IF nextCalls = << >>
                 THEN nextCalls' # << >> /\ nextCalls'[1] = "err"
                 ELSE /\ nextCalls' = nextCalls
                      /\ u.sessionListener => warnings' = warnings + 1 ]_vars

C20_NoEmitAfterEnd ==
    [][ crashed' = "no" =>
          \A k \in UpKeys :
            UpAt(reqFiles, upstreams, k).ended
              => Len(UpAt(reqFiles', upstreams', k).files)
                   = Len(UpAt(reqFiles, upstreams, k).files) ]_vars

\* C21: whenever a fatalIncomingError raises an error on a file's byte source
\* or on an Upstream, a listener is registered on that target, so that no
\* 'error' event is ever unhandled.
C21_NoUnhandledError == crashed \notin {"fileError", "upstreamError"}

\* C22: when the first file passes control, the file has its id and is on the
\* global Upstream and on the Upstream of its field before `next` is invoked,
\* so downstream code finds it in both records when it first runs; and in
\* every state a detected file implies that control has passed.
C22_FirstFileBeforeNext ==
    /\ [](anyFilesDetected => (~hasControl /\ AppRunning))
    /\ [][ (/\ ~anyFilesDetected /\ anyFilesDetected'
             /\ nextCalls = << >> /\ crashed' = "no")
               => /\ nextCalls' = << "ok" >>
                  /\ nextFileId' = nextFileId + 1
                  /\ atNext' = [seen |-> TRUE, globalIds |-> << nextFileId >>,
                                fieldIds |-> {nextFileId}] ]_vars

\* the first file passed control, and downstream code found it on both
\* Upstreams when it started
C22_Witness ==
    /\ anyFilesDetected /\ nextCalls = << "ok" >> /\ maxWaitTimer = "cleared"
    /\ atNext = [seen |-> TRUE, globalIds |-> << 0 >>, fieldIds |-> {0}]
    /\ Len(upstreams) = 1 /\ Ids(upstreams[1].files) = << 0 >>

====
